---- MODULE Spec2Model ----
(***************************************************************************)
(* The orientation engine of aphrodite-d3 (src/src/utils/viewFrame.ts):    *)
(* the house locator, the rule triggers, the rule effects and              *)
(* evalOrientationProgram, run by one chart session that carries the       *)
(* returned runtime state from one evaluation into the next.               *)
(*                                                                         *)
(* Angles are fixed-point numbers in hundredths of a degree (Deg(1) is     *)
(* 100), so that the distances 1.0 and 1.01 are both representable.        *)
(* JavaScript objects that the code compares or shares by reference (the   *)
(* runtime states, the view frames) live in a heap: a sequence of objects, *)
(* a reference being an index into it.  An optional value is a sequence of *)
(* length 0 (undefined) or 1.                                              *)
(***************************************************************************)
EXTENDS Integers, Sequences, FiniteSets, TLC

VARIABLES
    program,        \* the OrientationProgram of the session (never changes)
    origin,         \* how the session started: "fresh" (no state) or "caller" (a caller-built state)
    returned,       \* what the last call returned, with the heap it left and which rules fired
    previousState,  \* the reference passed as previousState to the last call (NoRef: omitted)
    prevBefore,     \* contents of that object when the call began (Undefined: omitted)
    chart,          \* the snapshot of the last call (Undefined before the first)
    repeat,         \* Some(fired of the call before) when the last call repeated its snapshot
    evals,          \* number of evaluations so far
    call,           \* a call of one of the renderer's utilities: the function and its arguments
    answer,         \* Some(what that call returned), Undefined while it has not run
    pair,           \* two sessions in one process, each beside a copy of it that runs alone
    wheel           \* a ChartWheel object

vars == <<program, origin, returned, previousState, prevBefore, chart, repeat, evals,
          call, answer, pair, wheel>>

heap == returned.heap     \* the runtime-state objects alive after the last call
state == returned.state   \* the reference the last call returned; the caller passes it next
fired == returned.fired   \* per rule of the program: did it fire in the last call
frame == returned.frame   \* the frame the last call returned
locks == returned.locks   \* the locks the last call returned
owned == returned.owned   \* the program's own frame objects and lock list, as the last call left them

---------------------------------------------------------------------------
(* Bounds of the model *)

MaxRules == 2
MaxEvals == 3

---------------------------------------------------------------------------
(* Values *)

Undefined == << >>
Some(v) == <<v>>

Deg(d) == d * 100

NoRef == 0
NoHouse == 0

EmptyMap == [k \in {} |-> 0]
MapGet(m, k) == IF k \in DOMAIN m THEN Some(m[k]) ELSE Undefined
MapSet(m, k, v) == [x \in DOMAIN m \cup {k} |-> IF x = k THEN v ELSE m[x]]

\* `${subject}:${house}`
Key(subject, house) == subject \o ":" \o ToString(house)

Min(S) == CHOOSE x \in S : \A y \in S : x <= y
Max(S) == CHOOSE x \in S : \A y \in S : x >= y

\* The array with the elements f[1], ..., f[n], as a sequence value.
Array(f) == << >> \o f

\* F(v), with v computed once however often F uses it.
Once(v, F(_)) == CHOOSE r \in {F(x) : x \in {v}} : TRUE

---------------------------------------------------------------------------
(* Angle utilities *)

normalizeDeg(angle) == angle % Deg(360)

normalizeAngle(angle) == normalizeDeg(angle)

---------------------------------------------------------------------------
(* Anchors, screen angles and locks.  chartData is a ChartDataForOrientation: *)
(* planetLongitudes and angleLongitudes as maps, houseCusps as the optional  *)
(* list of the entries of its Map.  null is Undefined.                       *)

\* createAnchorResolver(data).getObjectLongitude, ...
getObjectLongitude(data, objectId) == MapGet(data.planetLongitudes, objectId)

getHouseCusp(data, houseNumber) ==
    IF data.houseCusps = Undefined THEN Undefined
    ELSE LET entries == data.houseCusps[1]
             at == {i \in 1..Len(entries) : entries[i].houseNum = houseNumber}
         IN  IF at = {} THEN Undefined ELSE Some(entries[Min(at)].cusp)

getSignStart(signNumber) == signNumber * Deg(30)

getAngleLongitude(data, angleType) == MapGet(data.angleLongitudes, angleType)

\* The anchor's longitude by the kind of the anchor, null when the chart data
\* lack the element.
getAnchorLongitude(anchor, data) ==
    CASE anchor.kind = "object" -> getObjectLongitude(data, anchor.id)
      [] anchor.kind = "house" -> getHouseCusp(data, anchor.house)
      [] anchor.kind = "sign" -> Some(getSignStart(anchor.sign))
      [] anchor.kind = "angle" -> getAngleLongitude(data, anchor.id)

\* The anchor is shown at the frame's screen angle and the other longitudes
\* follow linearly, in the sense of the direction.
worldToScreenAngle(worldLongitude, viewFrame, anchorLongitude) ==
    LET sign == IF viewFrame.direction \in {"-1", "cw"} THEN -1 ELSE 1
    IN  normalizeDeg(viewFrame.screenAngleDeg + sign * (worldLongitude - anchorLongitude))

\* As convertToScreenAngle, the fallback returning the sum as it is.
convertToScreenAngle_unnormalised(worldLongitude, viewFrame, chartData) ==
    LET anchorLongitude == getAnchorLongitude(viewFrame.anchor, chartData)
    IN  IF anchorLongitude = Undefined
        THEN LET offset == viewFrame.screenAngleDeg - Deg(180)
             IN  Deg(180) - worldLongitude + offset
        ELSE worldToScreenAngle(worldLongitude, viewFrame, anchorLongitude[1])

convertToScreenAngle(worldLongitude, viewFrame, chartData) ==
    LET anchorLongitude == getAnchorLongitude(viewFrame.anchor, chartData)
    IN  IF anchorLongitude = Undefined
        THEN LET offset == viewFrame.screenAngleDeg - Deg(180)
             IN  normalizeAngle(Deg(180) - worldLongitude + offset)
        ELSE worldToScreenAngle(worldLongitude, viewFrame, anchorLongitude[1])

\* A lock rule applies to the element it names: the same type and the same id.
lockRuleApplies(lock, elementType, elementId) ==
    lock.elementType = elementType /\ lock.elementId = elementId

shouldLockElement(elementType, elementId, lockRules) ==
    \E i \in 1..Len(lockRules) : lockRuleApplies(lockRules[i], elementType, elementId)

\* As getLockFrameForElement, taking the last lock that applies.
getLockFrameForElement_last(elementType, elementId, lockRules) ==
    LET applicable == {i \in 1..Len(lockRules) :
                          lockRuleApplies(lockRules[i], elementType, elementId)}
    IN  IF applicable = {} THEN Undefined ELSE Some(lockRules[Max(applicable)].frame)

\* locks.find(...)?.frame ?? null
getLockFrameForElement(elementType, elementId, lockRules) ==
    LET applicable == {i \in 1..Len(lockRules) :
                          lockRuleApplies(lockRules[i], elementType, elementId)}
    IN  IF applicable = {} THEN Undefined ELSE Some(lockRules[Min(applicable)].frame)

\* The screen angle of the 'screen' branch is computed and not used: every
\* branch returns worldLongitude.
getEffectiveLongitude(worldLongitude, elementType, elementId, viewFrame, chartData, lockRules) ==
    LET lockFrame == getLockFrameForElement(elementType, elementId, lockRules)
    IN  IF lockFrame = Undefined THEN worldLongitude
        ELSE IF lockFrame[1] = "screen"
        THEN LET screenAngle == convertToScreenAngle(worldLongitude, viewFrame, chartData)
             IN  worldLongitude
        ELSE IF lockFrame[1] = "world" THEN worldLongitude
        ELSE worldLongitude

---------------------------------------------------------------------------
(* House locator.  houseCusps is a Map: its entries in insertion order. *)

\* As SortByCusp, leaving the entries in insertion order.
SortByCusp_unsorted(entries) == entries

\* entries sorted by cusp ascending.  Array.prototype.sort is stable: entries
\* with equal cusps keep their order, so entry i lands at the position that
\* counts the entries with a smaller cusp and the earlier ones with the same cusp.
SortByCusp(entries) ==
    LET n == Len(entries)
        rank(i) == Cardinality({j \in 1..n :
                        \/ entries[j].cusp < entries[i].cusp
                        \/ entries[j].cusp = entries[i].cusp /\ j <= i})
    IN  Array([r \in 1..n |-> entries[CHOOSE i \in 1..n : rank(i) = r]])

\* As getHouseForLongitude, without the fallback to the first house.
getHouseForLongitude_noFallback(longitude, houseCusps) ==
    IF Len(houseCusps) = 0 THEN NoHouse
    ELSE
    LET normalizedLon == normalizeAngle(longitude)
        Find(sortedHouses) ==
            LET n == Len(sortedHouses)
                Contains(i) ==
                    LET current == sortedHouses[i]
                        next == sortedHouses[(i % n) + 1]
                    IN  IF next.cusp < current.cusp
                        THEN normalizedLon >= current.cusp \/ normalizedLon < next.cusp
                        ELSE normalizedLon >= current.cusp /\ normalizedLon < next.cusp
                hits == {i \in 1..n : Contains(i)}
            IN  IF hits # {} THEN sortedHouses[Min(hits)].houseNum
                ELSE NoHouse
    IN  Once(SortByCusp(Array([i \in 1..Len(houseCusps) |->
                            [houseNum |-> houseCusps[i].houseNum,
                             cusp |-> normalizeAngle(houseCusps[i].cusp)]])), Find)

getHouseForLongitude(longitude, houseCusps) ==
    IF Len(houseCusps) = 0 THEN NoHouse
    ELSE
    LET normalizedLon == normalizeAngle(longitude)
        Find(sortedHouses) ==
            LET n == Len(sortedHouses)
                Contains(i) ==
                    LET current == sortedHouses[i]
                        next == sortedHouses[(i % n) + 1]
                    IN  IF next.cusp < current.cusp
                        THEN normalizedLon >= current.cusp \/ normalizedLon < next.cusp
                        ELSE normalizedLon >= current.cusp /\ normalizedLon < next.cusp
                hits == {i \in 1..n : Contains(i)}
            IN  IF hits # {} THEN sortedHouses[Min(hits)].houseNum
                ELSE sortedHouses[1].houseNum
    IN  Once(SortByCusp(Array([i \in 1..Len(houseCusps) |->
                            [houseNum |-> houseCusps[i].houseNum,
                             cusp |-> normalizeAngle(houseCusps[i].cusp)]])), Find)

---------------------------------------------------------------------------
(* Triggers *)

\* As ascLeavesHouseTriggered, without the check of appliedRuleIds.
ascLeavesHouseTriggered_unguarded(rule, snapshot, st) ==
    LET ascLon == MapGet(snapshot.angleLongitudes, "ASC")
    IN  IF ascLon = Undefined \/ snapshot.houseCusps = Undefined THEN FALSE
        ELSE
        LET currentHouse == getHouseForLongitude(ascLon[1], snapshot.houseCusps[1])
            targetHouse == rule.trigger.house
            prevHouse == MapGet(st.previousHousePositions, Key("ASC", targetHouse))
        IN  IF /\ currentHouse = targetHouse
               /\ prevHouse # Undefined
               /\ prevHouse[1] # targetHouse
            THEN TRUE
            ELSE IF prevHouse = Some(targetHouse) /\ currentHouse # targetHouse
                 THEN TRUE
            ELSE FALSE

ascLeavesHouseTriggered(rule, snapshot, st) ==
    LET ascLon == MapGet(snapshot.angleLongitudes, "ASC")
    IN  IF ascLon = Undefined \/ snapshot.houseCusps = Undefined THEN FALSE
        ELSE
        LET currentHouse == getHouseForLongitude(ascLon[1], snapshot.houseCusps[1])
            targetHouse == rule.trigger.house
            prevHouse == MapGet(st.previousHousePositions, Key("ASC", targetHouse))
        IN  IF rule.id \in st.appliedRuleIds THEN FALSE
            ELSE IF /\ currentHouse = targetHouse
                    /\ prevHouse # Undefined
                    /\ prevHouse[1] # targetHouse
                 THEN TRUE
            ELSE IF prevHouse = Some(targetHouse) /\ currentHouse # targetHouse
                 THEN TRUE
            ELSE FALSE

\* As planetCrossesHouseTriggered, without the look at the recorded position.
planetCrossesHouseTriggered_everyTime(rule, snapshot, st) ==
    LET planetLon == MapGet(snapshot.planetLongitudes, rule.trigger.planet)
    IN  IF planetLon = Undefined \/ snapshot.houseCusps = Undefined THEN FALSE
        ELSE
        LET currentHouse == getHouseForLongitude(planetLon[1], snapshot.houseCusps[1])
            targetHouse == rule.trigger.house
        IN  currentHouse = targetHouse

planetCrossesHouseTriggered(rule, snapshot, st) ==
    LET planetLon == MapGet(snapshot.planetLongitudes, rule.trigger.planet)
    IN  IF planetLon = Undefined \/ snapshot.houseCusps = Undefined THEN FALSE
        ELSE
        LET currentHouse == getHouseForLongitude(planetLon[1], snapshot.houseCusps[1])
            targetHouse == rule.trigger.house
            prevHouse == MapGet(st.previousHousePositions,
                                Key(rule.trigger.planet, targetHouse))
        IN  currentHouse = targetHouse /\ prevHouse # Some(targetHouse)

orb == Deg(1)

\* As planetCrossesAngleTriggered, with the orb's bound excluded.
planetCrossesAngleTriggered_strict(rule, snapshot, st) ==
    LET planetLon == MapGet(snapshot.planetLongitudes, rule.trigger.planet)
        angleLon == MapGet(snapshot.angleLongitudes, rule.trigger.angle)
    IN  IF planetLon = Undefined \/ angleLon = Undefined THEN FALSE
        ELSE
        LET d == normalizeDeg(planetLon[1] - angleLon[1])
            diff == IF d < 0 THEN -d ELSE d
            minDiff == IF diff <= Deg(360) - diff THEN diff ELSE Deg(360) - diff
        IN  minDiff < orb

planetCrossesAngleTriggered(rule, snapshot, st) ==
    LET planetLon == MapGet(snapshot.planetLongitudes, rule.trigger.planet)
        angleLon == MapGet(snapshot.angleLongitudes, rule.trigger.angle)
    IN  IF planetLon = Undefined \/ angleLon = Undefined THEN FALSE
        ELSE
        LET d == normalizeDeg(planetLon[1] - angleLon[1])
            diff == IF d < 0 THEN -d ELSE d
            minDiff == IF diff <= Deg(360) - diff THEN diff ELSE Deg(360) - diff
        IN  minDiff <= orb

\* As ruleTriggered, a custom trigger firing on every snapshot.
ruleTriggered_customFires(rule, snapshot, st) ==
    CASE rule.trigger.type = "ascLeavesHouse" ->
            ascLeavesHouseTriggered(rule, snapshot, st)
      [] rule.trigger.type = "planetCrossesHouse" ->
            planetCrossesHouseTriggered(rule, snapshot, st)
      [] rule.trigger.type = "planetCrossesAngle" ->
            planetCrossesAngleTriggered(rule, snapshot, st)
      [] rule.trigger.type = "custom" -> TRUE
      [] OTHER -> FALSE

ruleTriggered(rule, snapshot, st) ==
    CASE rule.trigger.type = "ascLeavesHouse" ->
            ascLeavesHouseTriggered(rule, snapshot, st)
      [] rule.trigger.type = "planetCrossesHouse" ->
            planetCrossesHouseTriggered(rule, snapshot, st)
      [] rule.trigger.type = "planetCrossesAngle" ->
            planetCrossesAngleTriggered(rule, snapshot, st)
      [] rule.trigger.type = "custom" -> FALSE
      [] OTHER -> FALSE

---------------------------------------------------------------------------
(* Applying a rule *)

\* for (const [planetId, lon] of chart.planetLongitudes.entries()): each planet
\* is recorded under the key of the house it is in now.  The planets write
\* distinct keys, so the order of the loop does not show in the result.
\* As trackPlanets, recording no planet.
trackPlanets_skipped(positions, planetIds, snapshot) == positions

\* As trackPlanets, keeping one entry for each planet, under the key of house 1.
RECURSIVE trackPlanets_oneKey(_, _, _)
trackPlanets_oneKey(positions, planetIds, snapshot) ==
    IF planetIds = {} THEN positions
    ELSE
    LET planetId == CHOOSE p \in planetIds : TRUE
        house == getHouseForLongitude(snapshot.planetLongitudes[planetId],
                                      snapshot.houseCusps[1])
    IN  trackPlanets_oneKey(IF house # NoHouse
                            THEN MapSet(positions, Key(planetId, 1), house)
                            ELSE positions,
                            planetIds \ {planetId}, snapshot)

RECURSIVE trackPlanets(_, _, _)
trackPlanets(positions, planetIds, snapshot) ==
    IF planetIds = {} THEN positions
    ELSE
    LET planetId == CHOOSE p \in planetIds : TRUE
        house == getHouseForLongitude(snapshot.planetLongitudes[planetId],
                                      snapshot.houseCusps[1])
    IN  trackPlanets(IF house # NoHouse
                     THEN MapSet(positions, Key(planetId, house), house)
                     ELSE positions,
                     planetIds \ {planetId}, snapshot)

\* The positions recorded for the next evaluation: the ASC, then every planet.
trackPositions(positions, snapshot) ==
    IF snapshot.houseCusps = Undefined THEN positions
    ELSE
    LET ascLon == MapGet(snapshot.angleLongitudes, "ASC")
        ascHouse == IF ascLon = Undefined THEN NoHouse
                    ELSE getHouseForLongitude(ascLon[1], snapshot.houseCusps[1])
        withAsc == IF ascHouse # NoHouse
                   THEN MapSet(positions, Key("ASC", ascHouse), ascHouse)
                   ELSE positions
    IN  trackPlanets(withAsc, DOMAIN snapshot.planetLongitudes, snapshot)

\* As applyEffect, a rotate leaving the sum as it is.
applyEffect_unnormalised(effect, newFrame, frames) ==
    LET viewFrame == frames[newFrame]
        newModel == viewFrame.worldZero # Undefined /\ viewFrame.screenZero # Undefined
    IN  CASE effect.type = "rotate" ->
                [frame |-> newFrame,
                 frames |-> [frames EXCEPT ![newFrame] =
                    IF newModel
                    THEN [viewFrame EXCEPT !.screenZero =
                              Some(viewFrame.screenZero[1] + effect.delta)]
                    ELSE [viewFrame EXCEPT !.screenAngleDeg =
                              viewFrame.screenAngleDeg + effect.delta]]]
          [] effect.type = "setViewFrame" ->
                [frame |-> effect.viewFrame, frames |-> frames]
          [] effect.type = "mirror" ->
                [frame |-> newFrame,
                 frames |-> [frames EXCEPT ![newFrame] =
                    IF newModel
                    THEN [viewFrame EXCEPT !.direction = IF @ = "-1" THEN "1" ELSE "-1"]
                    ELSE [viewFrame EXCEPT !.direction = IF @ = "cw" THEN "ccw" ELSE "cw"]]]
          [] OTHER -> [frame |-> newFrame, frames |-> frames]

\* newFrame refers to the copy applyRule made; a rotate or a mirror writes into
\* it, a setViewFrame drops it for the frame object the rule carries.
applyEffect(effect, newFrame, frames) ==
    LET viewFrame == frames[newFrame]
        newModel == viewFrame.worldZero # Undefined /\ viewFrame.screenZero # Undefined
    IN  CASE effect.type = "rotate" ->
                [frame |-> newFrame,
                 frames |-> [frames EXCEPT ![newFrame] =
                    IF newModel
                    THEN [viewFrame EXCEPT !.screenZero =
                              Some(normalizeDeg(viewFrame.screenZero[1] + effect.delta))]
                    ELSE [viewFrame EXCEPT !.screenAngleDeg =
                              normalizeDeg(viewFrame.screenAngleDeg + effect.delta)]]]
          [] effect.type = "setViewFrame" ->
                [frame |-> effect.viewFrame, frames |-> frames]
          [] effect.type = "mirror" ->
                [frame |-> newFrame,
                 frames |-> [frames EXCEPT ![newFrame] =
                    IF newModel
                    THEN [viewFrame EXCEPT !.direction = IF @ = "-1" THEN "1" ELSE "-1"]
                    ELSE [viewFrame EXCEPT !.direction = IF @ = "cw" THEN "ccw" ELSE "cw"]]]
          [] OTHER -> [frame |-> newFrame, frames |-> frames]

\* As applyRule, writing into the state object it was given.
applyRule_inPlace(rule, viewFrame, staticLocks, snapshot, st, objects, frames) ==
    LET old == objects[st]
        newState == [appliedRuleIds |-> old.appliedRuleIds \cup {rule.id},
                     previousHousePositions |->
                         trackPositions(old.previousHousePositions, snapshot)]
        copied == Append(frames, frames[viewFrame])
        effected == applyEffect(rule.effect, Len(copied), copied)
    IN  [frame |-> effected.frame,
         extraLocks |-> IF rule.locks = Undefined THEN << >> ELSE rule.locks[1],
         newState |-> st,
         heap |-> [objects EXCEPT ![st] = newState],
         frames |-> effected.frames]

\* As applyRule, not marking the rule as applied.
applyRule_unmarked(rule, viewFrame, staticLocks, snapshot, st, objects, frames) ==
    LET old == objects[st]
        newState == [appliedRuleIds |-> old.appliedRuleIds,
                     previousHousePositions |->
                         trackPositions(old.previousHousePositions, snapshot)]
        copied == Append(frames, frames[viewFrame])
        effected == applyEffect(rule.effect, Len(copied), copied)
    IN  [frame |-> effected.frame,
         extraLocks |-> IF rule.locks = Undefined THEN << >> ELSE rule.locks[1],
         newState |-> Len(objects) + 1,
         heap |-> Append(objects, newState),
         frames |-> effected.frames]

\* As applyRule, applying the effect to the frame object it was given.
applyRule_noCopy(rule, viewFrame, staticLocks, snapshot, st, objects, frames) ==
    LET old == objects[st]
        newState == [appliedRuleIds |-> old.appliedRuleIds \cup {rule.id},
                     previousHousePositions |->
                         trackPositions(old.previousHousePositions, snapshot)]
        effected == applyEffect(rule.effect, viewFrame, frames)
    IN  [frame |-> effected.frame,
         extraLocks |-> IF rule.locks = Undefined THEN << >> ELSE rule.locks[1],
         newState |-> Len(objects) + 1,
         heap |-> Append(objects, newState),
         frames |-> effected.frames]

\* As applyRule, applying the effect to a copy of the first frame object.
applyRule_fromBase(rule, viewFrame, staticLocks, snapshot, st, objects, frames) ==
    LET old == objects[st]
        newState == [appliedRuleIds |-> old.appliedRuleIds \cup {rule.id},
                     previousHousePositions |->
                         trackPositions(old.previousHousePositions, snapshot)]
        copied == Append(frames, frames[1])
        effected == applyEffect(rule.effect, Len(copied), copied)
    IN  [frame |-> effected.frame,
         extraLocks |-> IF rule.locks = Undefined THEN << >> ELSE rule.locks[1],
         newState |-> Len(objects) + 1,
         heap |-> Append(objects, newState),
         frames |-> effected.frames]

\* st is a reference into objects and the new state is a new object; viewFrame
\* is a reference into frames and the effect is applied to a copy of it.
applyRule(rule, viewFrame, staticLocks, snapshot, st, objects, frames) ==
    LET old == objects[st]
        newState == [appliedRuleIds |-> old.appliedRuleIds \cup {rule.id},
                     previousHousePositions |->
                         trackPositions(old.previousHousePositions, snapshot)]
        copied == Append(frames, frames[viewFrame])
        effected == applyEffect(rule.effect, Len(copied), copied)
    IN  [frame |-> effected.frame,
         extraLocks |-> IF rule.locks = Undefined THEN << >> ELSE rule.locks[1],
         newState |-> Len(objects) + 1,
         heap |-> Append(objects, newState),
         frames |-> effected.frames]

---------------------------------------------------------------------------
(* evalOrientationProgram *)

FreshState == [appliedRuleIds |-> {}, previousHousePositions |-> EmptyMap]

\* The frame objects a program is built from, in the order the references
\* below number them: the base frame, then the viewFrame of every setViewFrame
\* rule in list order.
ProgramFrames(prog) ==
    LET rules == IF prog.rules = Undefined THEN << >> ELSE prog.rules[1]
        carrying == SelectSeq(rules, LAMBDA r : r.effect.type = "setViewFrame")
    IN  <<prog.baseFrame>> \o Array([k \in 1..Len(carrying) |-> carrying[k].effect.viewFrame])

BaseFrameRef == 1

ViewFrameRef(rules, i) ==
    1 + Cardinality({j \in 1..i : rules[j].effect.type = "setViewFrame"})

\* The rules with the frame of each setViewFrame effect as a reference.
Linked(rules) ==
    Array([i \in 1..Len(rules) |->
        IF rules[i].effect.type = "setViewFrame"
        THEN [rules[i] EXCEPT !.effect.viewFrame = ViewFrameRef(rules, i)]
        ELSE rules[i]])

\* As RunRules, putting the locks of a rule before those gathered so far.
RECURSIVE RunRules_prepend(_, _, _, _, _)
RunRules_prepend(rules, i, staticLocks, snapshot, acc) ==
    IF i > Len(rules) THEN acc
    ELSE IF ruleTriggered(rules[i], snapshot, acc.heap[acc.state])
    THEN Once(applyRule(rules[i], acc.frame, staticLocks, snapshot,
                        acc.state, acc.heap, acc.frames),
              LAMBDA result :
                Once([frame |-> result.frame,
                      extraLocks |-> result.extraLocks \o acc.extraLocks,
                      state |-> result.newState,
                      heap |-> result.heap,
                      frames |-> result.frames,
                      fired |-> Append(acc.fired, TRUE)],
                     LAMBDA next : RunRules_prepend(rules, i + 1, staticLocks, snapshot, next)))
    ELSE Once([acc EXCEPT !.fired = Append(@, FALSE)],
              LAMBDA next : RunRules_prepend(rules, i + 1, staticLocks, snapshot, next))

RECURSIVE RunRules(_, _, _, _, _)
RunRules(rules, i, staticLocks, snapshot, acc) ==
    IF i > Len(rules) THEN acc
    ELSE IF ruleTriggered(rules[i], snapshot, acc.heap[acc.state])
    THEN Once(applyRule(rules[i], acc.frame, staticLocks, snapshot,
                        acc.state, acc.heap, acc.frames),
              LAMBDA result :
                Once([frame |-> result.frame,
                      extraLocks |-> acc.extraLocks \o result.extraLocks,
                      state |-> result.newState,
                      heap |-> result.heap,
                      frames |-> result.frames,
                      fired |-> Append(acc.fired, TRUE)],
                     LAMBDA next : RunRules(rules, i + 1, staticLocks, snapshot, next)))
    ELSE Once([acc EXCEPT !.fired = Append(@, FALSE)],
              LAMBDA next : RunRules(rules, i + 1, staticLocks, snapshot, next))

\* As evalOrientationProgram, returning the locks of the rules before the
\* static ones.
evalOrientationProgram_extraFirst(prog, snapshot, prev, objects, mine) ==
    LET staticLocks == IF mine.locks = Undefined THEN << >> ELSE mine.locks[1]
        rules == IF prog.rules = Undefined THEN << >> ELSE Linked(prog.rules[1])
        heap0 == IF prev = NoRef THEN Append(objects, FreshState) ELSE objects
        state0 == IF prev = NoRef THEN Len(heap0) ELSE prev
        start == [frame |-> BaseFrameRef, extraLocks |-> << >>,
                  state |-> state0, heap |-> heap0,
                  frames |-> mine.frames, fired |-> << >>]
    IN  Once(rules, LAMBDA linked :
        Once(start, LAMBDA acc :
        Once(RunRules(linked, 1, staticLocks, snapshot, acc), LAMBDA run :
            [frame |-> run.frames[run.frame],
             locks |-> run.extraLocks \o staticLocks,
             state |-> run.state,
             heap |-> run.heap,
             fired |-> run.fired,
             owned |-> [frames |-> SubSeq(run.frames, 1, Len(mine.frames)),
                        locks |-> mine.locks]])))

\* prev is the reference passed as previousState (NoRef when omitted); mine
\* holds the program's own objects as they are when the call begins: its frame
\* objects (ProgramFrames) and its lock list.
evalOrientationProgram(prog, snapshot, prev, objects, mine) ==
    LET staticLocks == IF mine.locks = Undefined THEN << >> ELSE mine.locks[1]
        rules == IF prog.rules = Undefined THEN << >> ELSE Linked(prog.rules[1])
        heap0 == IF prev = NoRef THEN Append(objects, FreshState) ELSE objects
        state0 == IF prev = NoRef THEN Len(heap0) ELSE prev
        start == [frame |-> BaseFrameRef, extraLocks |-> << >>,
                  state |-> state0, heap |-> heap0,
                  frames |-> mine.frames, fired |-> << >>]
    IN  Once(rules, LAMBDA linked :
        Once(start, LAMBDA acc :
        Once(RunRules(linked, 1, staticLocks, snapshot, acc), LAMBDA run :
            [frame |-> run.frames[run.frame],
             locks |-> staticLocks \o run.extraLocks,
             state |-> run.state,
             heap |-> run.heap,
             fired |-> run.fired,
             owned |-> [frames |-> SubSeq(run.frames, 1, Len(mine.frames)),
                        locks |-> mine.locks]])))

---------------------------------------------------------------------------
(* The inputs the session draws from *)

LegacyFrame ==
    [anchor |-> [kind |-> "angle", id |-> "ASC"], screenAngleDeg |-> Deg(180),
     direction |-> "cw", worldZero |-> Undefined, screenZero |-> Undefined]

Triggers ==
    {[type |-> "ascLeavesHouse", house |-> 1]}
    \cup {[type |-> "planetCrossesHouse", planet |-> "mars", house |-> 1]}
    \cup {[type |-> "planetCrossesAngle", planet |-> "mars", angle |-> "ASC"],
          [type |-> "custom"]}

RuleId(i) == "r" \o ToString(i)

Rule(i, trigger) ==
    [id |-> RuleId(i), trigger |-> trigger,
     effect |-> [type |-> "rotate", delta |-> Deg(30)], locks |-> Undefined]

RuleLists ==
    UNION {{[i \in 1..n |-> Rule(i, ts[i])] : ts \in [1..n -> Triggers]} : n \in 0..MaxRules}

LockRule(elementType, elementId, lockFrame) ==
    [elementType |-> elementType, elementId |-> elementId, frame |-> lockFrame]

StaticLocks == <<LockRule("angle", "ASC", "screen")>>

\* Programs over every rule list, without locks; and two programs with static
\* locks that have nothing to fire: one without a rule list, one whose only
\* rule is a custom one.
Programs ==
    {[baseFrame |-> LegacyFrame, locks |-> Undefined, rules |-> Some(rs)] : rs \in RuleLists}
    \cup {[baseFrame |-> LegacyFrame, locks |-> Some(StaticLocks), rules |-> rs] :
            rs \in {Undefined, Some(<<Rule(1, [type |-> "custom"])>>)}}

\* Three houses of 120 degrees.
CuspMaps ==
    {<<[houseNum |-> 1, cusp |-> Deg(0)], [houseNum |-> 2, cusp |-> Deg(120)],
       [houseNum |-> 3, cusp |-> Deg(240)]>>}

MarsLongitudes == {Deg(15), Deg(130)}
AscLongitudes == {Deg(15), Deg(16), 1601, Deg(130)}

OptionalEntry(k, values) == {EmptyMap} \cup {(k :> v) : v \in values}

Chart(pl, al, hc) == [planetLongitudes |-> pl, angleLongitudes |-> al, houseCusps |-> hc]

\* Every combination of mars and the ASC, each possibly missing, over the cusps;
\* two snapshots without houseCusps, mars on the ASC and away from it; and one
\* whose houseCusps map is empty.
Charts ==
    {Chart(pl, al, Some(hc)) :
        pl \in OptionalEntry("mars", MarsLongitudes),
        al \in OptionalEntry("ASC", AscLongitudes),
        hc \in CuspMaps}
    \cup {Chart("mars" :> Deg(15), "ASC" :> a, Undefined) : a \in {Deg(15), Deg(130)}}
    \cup {Chart("mars" :> Deg(15), "ASC" :> Deg(130), Some(<< >>))}

\* States a caller may have built itself: empty, with the first rule marked as
\* applied, or with a position recorded for the ASC under "ASC:1" (house 1, or
\* a house that is not the key's).
CallerStates ==
    {[appliedRuleIds |-> {}, previousHousePositions |-> m] :
        m \in {EmptyMap} \cup {(Key("ASC", 1) :> v) : v \in 1..2}}
    \cup {[appliedRuleIds |-> {RuleId(1)}, previousHousePositions |-> EmptyMap]}

---------------------------------------------------------------------------
(* The session *)

\* Before the first call: no result yet, the caller's state (if any) in the
\* heap and the program's objects as built.
Constructed(prog, st, objects) ==
    [frame |-> prog.baseFrame, locks |-> << >>, state |-> st, heap |-> objects,
     fired |-> << >>,
     owned |-> [frames |-> ProgramFrames(prog), locks |-> prog.locks]]

Init ==
    /\ program \in Programs
    /\ \/ /\ origin = "fresh"
          /\ returned = Constructed(program, NoRef, << >>)
       \/ /\ origin = "caller"
          /\ \E s \in CallerStates : returned = Constructed(program, 1, <<s>>)
    /\ previousState = NoRef
    /\ prevBefore = Undefined
    /\ chart = Undefined
    /\ repeat = Undefined
    /\ evals = 0
    /\ call = Undefined
    /\ answer = Undefined
    /\ pair = Undefined
    /\ wheel = Undefined

\* One call of evalOrientationProgram(program, snapshot, state): the caller
\* passes the state it holds and keeps the returned one.  Objects no longer
\* referenced by the caller are dropped before the call.  A session that
\* started from a caller-built state has one evaluation less to go.
Evaluate(snapshot) ==
    /\ evals < (IF origin = "fresh" THEN MaxEvals ELSE MaxEvals - 1)
    /\ LET held == IF state = NoRef THEN << >> ELSE <<heap[state]>>
           prev == IF state = NoRef THEN NoRef ELSE 1
       IN  /\ returned' = evalOrientationProgram(program, snapshot, prev, held, owned)
           /\ previousState' = prev
           /\ prevBefore' = held
    /\ repeat' = IF chart = Some(snapshot) THEN Some(fired) ELSE Undefined
    /\ chart' = Some(snapshot)
    /\ evals' = evals + 1
    /\ UNCHANGED <<program, origin, call, answer, pair, wheel>>

Next == \E snapshot \in Charts : Evaluate(snapshot)

Spec == Init /\ [][Next]_vars

---------------------------------------------------------------------------
(* Sessions that exercise the effects and the locks: programs over every    *)
(* effect, with and without locks, on frames of either encoding.            *)

MaxEffectEvals == 1

\* Frames beside LegacyFrame: the new model (both zero points, direction -1);
\* frames with one zero point only; and a frame without zero points whose
\* direction is a number.
NewModelFrame ==
    [LegacyFrame EXCEPT !.worldZero = Some(Deg(0)), !.screenZero = Some(Deg(270)),
                        !.direction = "-1"]

ScreenZeroOnlyFrame ==
    [LegacyFrame EXCEPT !.screenZero = Some(Deg(270)), !.direction = "ccw"]

WorldZeroOnlyFrame == [LegacyFrame EXCEPT !.worldZero = Some(Deg(0))]

NumericDirectionFrame == [LegacyFrame EXCEPT !.direction = "1"]

BaseFrames ==
    {LegacyFrame, NewModelFrame, ScreenZeroOnlyFrame, WorldZeroOnlyFrame,
     NumericDirectionFrame}

\* The frame a setViewFrame rule carries.
CarriedFrame ==
    [anchor |-> [kind |-> "angle", id |-> "MC"], screenAngleDeg |-> Deg(90),
     direction |-> "1", worldZero |-> Some(Deg(0)), screenZero |-> Some(Deg(350))]

Effects ==
    {[type |-> "rotate", delta |-> d] : d \in {Deg(200), Deg(-200)}}
    \cup {[type |-> "setViewFrame", viewFrame |-> CarriedFrame], [type |-> "mirror"]}

\* The locks rule i contributes, when it has any.
RuleLocks(i) == <<LockRule("object", RuleId(i), "world"), LockRule("angle", "ASC", "houses")>>

EffectTriggers ==
    {[type |-> "planetCrossesAngle", planet |-> "mars", angle |-> "ASC"], [type |-> "custom"]}

EffectRuleLists ==
    UNION {{[i \in 1..n |->
                [id |-> RuleId(i), trigger |-> ts[i], effect |-> es[i],
                 locks |-> IF i \in withLocks THEN Some(RuleLocks(i)) ELSE Undefined]] :
                ts \in [1..n -> EffectTriggers], es \in [1..n -> Effects],
                withLocks \in SUBSET (1..n)} : n \in 0..MaxRules}

EffectPrograms ==
    {[baseFrame |-> bf, locks |-> sl, rules |-> Some(rs)] :
        bf \in BaseFrames, sl \in {Undefined, Some(StaticLocks)}, rs \in EffectRuleLists}

\* Mars on the ASC, and away from it.
EffectCharts ==
    {Chart("mars" :> m, "ASC" :> Deg(15), Some(hc)) :
        m \in {Deg(15), Deg(130)}, hc \in CuspMaps}

EffectInit ==
    /\ program \in EffectPrograms
    /\ origin = "fresh"
    /\ returned = Constructed(program, NoRef, << >>)
    /\ previousState = NoRef
    /\ prevBefore = Undefined
    /\ chart = Undefined
    /\ repeat = Undefined
    /\ evals = 0
    /\ call = Undefined
    /\ answer = Undefined
    /\ pair = Undefined
    /\ wheel = Undefined

EffectNext == \E snapshot \in EffectCharts : evals < MaxEffectEvals /\ Evaluate(snapshot)

EffectSpec == EffectInit /\ [][EffectNext]_vars

---------------------------------------------------------------------------
(* The renderer's utilities, each called once on arguments drawn from the   *)
(* pools below.                                                              *)

MaxCusps == 3
MaxLocks == 2

\* Longitudes on cusps, between them, below 0 and from 360 on.
Longitudes ==
    {Deg(0), Deg(15), 8999, Deg(90), Deg(200), Deg(359), Deg(360), Deg(-20), Deg(725)}

\* 450 is 90 once normalised.
CuspValues == {Deg(20), Deg(90), Deg(350), Deg(450)}

\* The lists of n distinct elements of S.
Injections(S, n) == {q \in [1..n -> S] : \A i, j \in 1..n : q[i] = q[j] => i = j}

\* Every map of up to MaxCusps houses, in every insertion order, onto cusps in
\* any order, equal ones included.
SmallCuspMaps ==
    UNION {{[i \in 1..n |-> [houseNum |-> hs[i], cusp |-> cs[i]]] :
                hs \in Injections(1..MaxCusps, n), cs \in [1..n -> CuspValues]} :
           n \in 0..MaxCusps}

\* The cusps 0, 30, ..., 330 of the houses 1 to 12.
TwelveCusps == [h \in 1..12 |-> [houseNum |-> h, cusp |-> Deg(30 * (h - 1))]]

LocatorCalls ==
    {[fn |-> "getHouseForLongitude", longitude |-> l, houseCusps |-> hc] :
        l \in Longitudes, hc \in SmallCuspMaps \cup {TwelveCusps}}

Elements == {<<t, id>> : t \in {"object", "angle"}, id \in {"mars", "ASC"}}

LockRules == {LockRule(e[1], e[2], f) : e \in Elements, f \in {"world", "screen"}}

LockCalls ==
    {[fn |-> "getLockFrameForElement", elementType |-> e[1], elementId |-> e[2],
      locks |-> ls] :
        e \in Elements, ls \in UNION {[1..n -> LockRules] : n \in 0..MaxLocks}}

Anchors ==
    {[kind |-> "angle", id |-> "ASC"], [kind |-> "object", id |-> "mars"],
     [kind |-> "house", house |-> 1], [kind |-> "sign", sign |-> 1]}

ScreenFrames ==
    {[LegacyFrame EXCEPT !.anchor = a, !.screenAngleDeg = sa, !.direction = d] :
        a \in Anchors, sa \in {Deg(0), Deg(180), Deg(-90), Deg(450)}, d \in {"cw", "ccw"}}

\* Chart data with everything, with the ASC only, and with nothing.
ChartDatas ==
    {Chart("mars" :> Deg(130), "ASC" :> Deg(15), Some(TwelveCusps)),
     Chart(EmptyMap, "ASC" :> Deg(15), Undefined),
     Chart(EmptyMap, EmptyMap, Undefined)}

ScreenCalls ==
    {[fn |-> "convertToScreenAngle", worldLongitude |-> l, viewFrame |-> f,
      chartData |-> cd] :
        l \in Longitudes, f \in ScreenFrames, cd \in ChartDatas}

\* Locks on the ASC and on mars, to the screen and to the world.
EffectiveLocks ==
    {LockRule("angle", "ASC", "screen"), LockRule("angle", "ASC", "world"),
     LockRule("object", "mars", "screen")}

EffectiveCalls ==
    {[fn |-> "getEffectiveLongitude", worldLongitude |-> l, elementType |-> e[1],
      elementId |-> e[2], viewFrame |-> f, chartData |-> cd, locks |-> ls] :
        l \in {Deg(15), Deg(200)}, e \in {<<"angle", "ASC">>, <<"object", "mars">>},
        f \in {LegacyFrame, [LegacyFrame EXCEPT !.direction = "ccw"]},
        cd \in ChartDatas,
        ls \in UNION {[1..n -> EffectiveLocks] : n \in 0..MaxLocks}}

IdleProgram == [baseFrame |-> LegacyFrame, locks |-> Undefined, rules |-> Undefined]

UtilInit ==
    /\ program = IdleProgram
    /\ origin = "fresh"
    /\ returned = Constructed(program, NoRef, << >>)
    /\ previousState = NoRef
    /\ prevBefore = Undefined
    /\ chart = Undefined
    /\ repeat = Undefined
    /\ evals = 0
    /\ call \in LocatorCalls \cup LockCalls \cup ScreenCalls \cup EffectiveCalls
    /\ answer = Undefined
    /\ pair = Undefined
    /\ wheel = Undefined

Returns(value) ==
    /\ answer = Undefined
    /\ answer' = Some(value)
    /\ UNCHANGED <<program, origin, returned, previousState, prevBefore, chart, repeat,
                   evals, call, pair, wheel>>

LocateHouse ==
    /\ call.fn = "getHouseForLongitude"
    /\ Returns(getHouseForLongitude(call.longitude, call.houseCusps))

FindLockFrame ==
    /\ call.fn = "getLockFrameForElement"
    /\ Returns(getLockFrameForElement(call.elementType, call.elementId, call.locks))

ConvertAngle ==
    /\ call.fn = "convertToScreenAngle"
    /\ Returns(convertToScreenAngle(call.worldLongitude, call.viewFrame, call.chartData))

EffectiveLongitude ==
    /\ call.fn = "getEffectiveLongitude"
    /\ Returns(getEffectiveLongitude(call.worldLongitude, call.elementType, call.elementId,
                                     call.viewFrame, call.chartData, call.locks))

UtilNext == LocateHouse \/ FindLockFrame \/ ConvertAngle \/ EffectiveLongitude

UtilSpec == UtilInit /\ [][UtilNext]_vars

---------------------------------------------------------------------------
(* Two chart sessions in one process.  Their runtime states live in one     *)
(* heap and each session holds a reference to its own; the sessions run     *)
(* either one program object or a program object each.  Beside every        *)
(* session runs a copy of it that is alone in its process and is given the  *)
(* same snapshots.                                                           *)

MaxPairEvals == 2

Sessions == 1..2

\* The first rule tracks mars into house 1 and carries locks; a second rule,
\* when there is one, fires while mars is on the ASC.
PairRuleLists ==
    {<<[id |-> RuleId(1),
        trigger |-> [type |-> "planetCrossesHouse", planet |-> "mars", house |-> 1],
        effect |-> e, locks |-> Some(RuleLocks(1))]>> \o tail :
        e \in {[type |-> "rotate", delta |-> Deg(200)], [type |-> "mirror"],
               [type |-> "setViewFrame", viewFrame |-> CarriedFrame]},
        tail \in {<< >>,
                  <<[id |-> RuleId(2),
                     trigger |-> [type |-> "planetCrossesAngle", planet |-> "mars",
                                  angle |-> "ASC"],
                     effect |-> [type |-> "rotate", delta |-> Deg(-200)],
                     locks |-> Undefined]>>}}

PairPrograms ==
    {[baseFrame |-> NewModelFrame, locks |-> Some(StaticLocks), rules |-> Some(rs)] :
        rs \in PairRuleLists}

\* Mars in house 1 on the ASC, and in house 2.
PairCharts ==
    {Chart("mars" :> m, "ASC" :> Deg(15), Some(hc)) :
        m \in {Deg(15), Deg(130)}, hc \in CuspMaps}

\* The program objects session s runs: the first when the program is shared.
ProgramOf(s) == IF pair.shared THEN 1 ELSE s

\* The heap with the objects some session still refers to, and the sessions'
\* references into it.
Compact(objects, refs) ==
    LET live == {refs[s] : s \in Sessions} \ {NoRef}
        index(r) == Cardinality({x \in live : x <= r})
    IN  [heap |-> Array([k \in 1..Cardinality(live) |->
                            objects[CHOOSE r \in live : index(r) = k]]),
         held |-> [s \in Sessions |-> IF refs[s] = NoRef THEN NoRef ELSE index(refs[s])]]

PairInit ==
    /\ program = IdleProgram
    /\ origin = "fresh"
    /\ returned = Constructed(program, NoRef, << >>)
    /\ previousState = NoRef
    /\ prevBefore = Undefined
    /\ chart = Undefined
    /\ repeat = Undefined
    /\ evals = 0
    /\ call = Undefined
    /\ answer = Undefined
    /\ \E shared \in BOOLEAN, progs \in [Sessions -> PairPrograms] :
        /\ shared => progs[1] = progs[2]
        /\ pair = [shared |-> shared,
                   programs |-> progs,
                   heap |-> << >>,
                   held |-> [s \in Sessions |-> NoRef],
                   owned |-> [s \in Sessions |->
                                 [frames |-> ProgramFrames(progs[s]),
                                  locks |-> progs[s].locks]],
                   result |-> [s \in Sessions |-> Constructed(progs[s], NoRef, << >>)],
                   alone |-> [s \in Sessions |-> Constructed(progs[s], NoRef, << >>)],
                   order |-> << >>]
    /\ wheel = Undefined

\* Session s calls evalOrientationProgram(program, snapshot, state) with the
\* state it holds and keeps the returned one; its copy does the same alone.
PairEvaluate(s, snapshot) ==
    /\ Cardinality({k \in 1..Len(pair.order) : pair.order[k] = s}) < MaxPairEvals
    /\ LET prog == pair.programs[s]
           together == evalOrientationProgram(prog, snapshot, pair.held[s], pair.heap,
                                              pair.owned[ProgramOf(s)])
           kept == Compact(together.heap, [pair.held EXCEPT ![s] = together.state])
           single == pair.alone[s]
           mine == IF single.state = NoRef THEN << >> ELSE <<single.heap[single.state]>>
           prev == IF single.state = NoRef THEN NoRef ELSE 1
       IN  pair' = [pair EXCEPT
                      !.heap = kept.heap,
                      !.held = kept.held,
                      !.owned[ProgramOf(s)] = together.owned,
                      !.result[s] = together,
                      !.alone[s] = evalOrientationProgram(prog, snapshot, prev, mine,
                                                          single.owned),
                      !.order = Append(@, s)]
    /\ UNCHANGED <<program, origin, returned, previousState, prevBefore, chart, repeat,
                   evals, call, answer, wheel>>

PairNext == \E s \in Sessions, snapshot \in PairCharts : PairEvaluate(s, snapshot)

PairSpec == PairInit /\ [][PairNext]_vars

---------------------------------------------------------------------------
(* ChartWheel (src/unnamed/part_003): the options, the merge of the visual  *)
(* configuration with the theme, render, update and destroy.  A JavaScript  *)
(* object is a function from its keys; of a colour array the first two      *)
(* entries are kept, of the aspect colours conjunction and opposition.      *)
(* Stroke widths are in tenths of a pixel.                                  *)

Px(n) == n * 10

\* { ...a, ...b }
Spread(a, b) == b @@ a

darkTraditionalTheme ==
    [signColors |-> <<"#C0392B", "#D68910">>,
     houseColors |-> <<"#3A3A3A", "#404040">>,
     planetColors |-> <<"#F39C12", "#F7DC6F">>,
     aspectColors |-> [conjunction |-> "#C0392B", opposition |-> "#3498DB"],
     backgroundColor |-> "#1a1a1a", strokeColor |-> "#d4af37",
     strokeWidth |-> Px(1), aspectStrokeWidth |-> Px(2)]

darkModernTheme ==
    [signColors |-> <<"#E63946", "#F77F00">>,
     houseColors |-> <<"#2A2A2A", "#333333">>,
     planetColors |-> <<"#FFB800", "#E0E0E0">>,
     aspectColors |-> [conjunction |-> "#FF4757", opposition |-> "#4A90E2"],
     backgroundColor |-> "#0f0f0f", strokeColor |-> "#e0e0e0",
     strokeWidth |-> Px(1), aspectStrokeWidth |-> Px(2)]

lightTraditionalTheme ==
    [signColors |-> <<"#DC143C", "#8B4513">>,
     houseColors |-> <<"#E0E0E0", "#D0D0D0">>,
     planetColors |-> <<"#FFD700", "#C0C0C0">>,
     aspectColors |-> [conjunction |-> "#DC143C", opposition |-> "#4169E1"],
     backgroundColor |-> "#FFFFFF", strokeColor |-> "#000000",
     strokeWidth |-> Px(1), aspectStrokeWidth |-> Px(2)]

highContrastTheme ==
    [signColors |-> <<"#FF0000", "#FF8000">>,
     houseColors |-> <<"#FFFFFF", "#000000">>,
     planetColors |-> <<"#FFFF00", "#FFFFFF">>,
     aspectColors |-> [conjunction |-> "#FF0000", opposition |-> "#0000FF"],
     backgroundColor |-> "#FFFFFF", strokeColor |-> "#000000",
     strokeWidth |-> Px(2), aspectStrokeWidth |-> Px(3)]

colorblindTheme ==
    [signColors |-> <<"#E69F00", "#56B4E9">>,
     houseColors |-> <<"#E8E8E8", "#D0D0D0">>,
     planetColors |-> <<"#E69F00", "#56B4E9">>,
     aspectColors |-> [conjunction |-> "#D55E00", opposition |-> "#0072B2"],
     backgroundColor |-> "#FFFFFF", strokeColor |-> "#000000",
     strokeWidth |-> Px(2), aspectStrokeWidth |-> 25]

Themes == {"traditional", "modern", "light", "high-contrast", "colorblind"}

getThemeColors(theme) ==
    CASE theme = "traditional" -> darkTraditionalTheme
      [] theme = "modern" -> darkModernTheme
      [] theme = "light" -> lightTraditionalTheme
      [] theme = "high-contrast" -> highContrastTheme
      [] theme = "colorblind" -> colorblindTheme
      [] OTHER -> darkTraditionalTheme

\* The table behind the default configuration ("dark mode traditional").
getDarkModeTheme(theme) == getThemeColors(theme)

defaultVisualConfig ==
    Spread([ringWidth |-> 30, ringSpacing |-> 10], getDarkModeTheme("traditional"))

\* config[key] || fallback[key]; the arrays are truthy whenever they are set.
OrDefault(config, key, fallback) ==
    IF key \in DOMAIN config THEN config[key] ELSE fallback[key]

\* config.aspectColors || {}
AspectColorsOf(config) ==
    IF "aspectColors" \in DOMAIN config THEN config.aspectColors ELSE << >>

\* config and theme are optional.
mergeVisualConfig(config, theme) ==
    IF config # Undefined
    THEN Spread(Spread(defaultVisualConfig, config[1]),
             [signColors |-> OrDefault(config[1], "signColors", defaultVisualConfig),
              houseColors |-> OrDefault(config[1], "houseColors", defaultVisualConfig),
              planetColors |-> OrDefault(config[1], "planetColors", defaultVisualConfig),
              aspectColors |-> Spread(defaultVisualConfig.aspectColors,
                                      AspectColorsOf(config[1]))])
    ELSE IF theme # Undefined
    THEN LET themeConfig == getThemeColors(theme[1])
         IN  Spread(Spread(defaultVisualConfig, themeConfig),
                 [ringWidth |-> defaultVisualConfig.ringWidth,
                  ringSpacing |-> defaultVisualConfig.ringSpacing,
                  signColors |-> OrDefault(themeConfig, "signColors", defaultVisualConfig),
                  houseColors |-> OrDefault(themeConfig, "houseColors", defaultVisualConfig),
                  planetColors |-> OrDefault(themeConfig, "planetColors", defaultVisualConfig),
                  aspectColors |-> Spread(defaultVisualConfig.aspectColors,
                                          AspectColorsOf(themeConfig))])
    ELSE defaultVisualConfig

\* renderData is Undefined for null; so is its wheel when it is missing.  The
\* function throws where this is FALSE.
validateRenderData(renderData) ==
    /\ renderData # Undefined
    /\ renderData[1].wheel # Undefined
    /\ renderData[1].wheel[1].radius.outer > 0

DefaultSize == 800

\* render(): w is the ChartWheel object.  Where the body throws, the catch
\* block writes the error into the container and throws again; the fields of
\* the object stay as they were.
render(w) ==
    LET o == w.options
        width == IF "width" \in DOMAIN o THEN o.width ELSE DefaultSize
        height == IF "height" \in DOMAIN o THEN o.height ELSE DefaultSize
    IN  IF ~validateRenderData(o.renderData) \/ width <= 0 \/ height <= 0
        THEN [w EXCEPT !.container = "error", !.threw = TRUE]
        ELSE [w EXCEPT !.container = "svg", !.svg = TRUE, !.tooltip = TRUE,
                       !.zoom = TRUE,
                       !.merged = Some(mergeVisualConfig(MapGet(o, "visualConfig"),
                                                         MapGet(o, "theme"))),
                       !.animated = w.isUpdating,
                       !.threw = FALSE]

\* update(options): the statement after this.render() is not reached when
\* render throws.
update(w, options) ==
    LET rendered == render([w EXCEPT !.isUpdating = TRUE,
                                     !.options = Spread(w.options, options)])
    IN  IF rendered.threw THEN rendered ELSE [rendered EXCEPT !.isUpdating = FALSE]

destroy(w) ==
    [w EXCEPT !.observer = FALSE, !.container = "empty", !.tooltip = FALSE,
              !.svg = FALSE, !.zoom = FALSE, !.threw = FALSE]

\* new ChartWheel(container, options); hasObserver: the environment defines
\* ResizeObserver.
constructor(options, hasObserver) ==
    LET built == render([options |-> options, isUpdating |-> FALSE, svg |-> FALSE,
                         zoom |-> FALSE, tooltip |-> FALSE, observer |-> FALSE,
                         container |-> "empty", merged |-> Undefined,
                         animated |-> FALSE, threw |-> FALSE])
        autoResize == "width" \notin DOMAIN options /\ "height" \notin DOMAIN options
    IN  [built EXCEPT !.observer = autoResize /\ hasObserver]

ValidRenderData ==
    Some([wheel |-> Some([rings |-> << >>, radius |-> [outer |-> 300]])])

RenderDatas ==
    {ValidRenderData,
     Some([wheel |-> Some([rings |-> << >>, radius |-> [outer |-> 0]])]),
     Some([wheel |-> Undefined]),
     Undefined}

\* The empty object, one colour, one width, and colours of both kinds.
VisualConfigs ==
    {<< >>,
     [backgroundColor |-> "#ff0000"],
     [strokeWidth |-> Px(5)],
     [signColors |-> <<"#111111", "#222222">>, aspectColors |-> [conjunction |-> "#00ff00"]]}

InitOptions ==
    {Spread(Spread(Spread([renderData |-> ValidRenderData], size), theme), config) :
        size \in {<< >>, [width |-> DefaultSize, height |-> DefaultSize]},
        theme \in {<< >>} \cup {[theme |-> t] : t \in Themes},
        config \in {<< >>} \cup {[visualConfig |-> vc] : vc \in VisualConfigs}}

\* The Partial<ChartWheelOptions> of the update calls.
Patches ==
    {[theme |-> t] : t \in Themes}
    \cup {[visualConfig |-> vc] : vc \in VisualConfigs}
    \cup {[renderData |-> rd] : rd \in RenderDatas}
    \cup {[width |-> 1200, height |-> 1200], [width |-> 0], [height |-> -1]}

\* The sizes the ResizeObserver reports for the container.
ContentRects == {[width |-> 400, height |-> 400], [width |-> 0, height |-> 0]}

WheelInit ==
    /\ program = IdleProgram
    /\ origin = "fresh"
    /\ returned = Constructed(program, NoRef, << >>)
    /\ previousState = NoRef
    /\ prevBefore = Undefined
    /\ chart = Undefined
    /\ repeat = Undefined
    /\ evals = 0
    /\ call = Undefined
    /\ answer = Undefined
    /\ pair = Undefined
    /\ \E options \in InitOptions, hasObserver \in BOOLEAN :
        wheel = constructor(options, hasObserver)

Unrelated ==
    UNCHANGED <<program, origin, returned, previousState, prevBefore, chart, repeat,
                evals, call, answer, pair>>

Update ==
    /\ \E options \in Patches : wheel' = update(wheel, options)
    /\ Unrelated

Render ==
    /\ wheel' = render(wheel)
    /\ Unrelated

\* The callback of the ResizeObserver: update({ width, height }) for every
\* entry with a positive size.
Resized ==
    /\ wheel.observer
    /\ \E rect \in ContentRects :
        wheel' = IF rect.width > 0 /\ rect.height > 0 THEN update(wheel, rect) ELSE wheel
    /\ Unrelated

Destroy ==
    /\ wheel' = destroy(wheel)
    /\ Unrelated

WheelNext == Update \/ Render \/ Resized \/ Destroy

WheelSpec == WheelInit /\ [][WheelNext]_vars

---------------------------------------------------------------------------
(* Sessions whose snapshots may hold an object with the identifier "ASC"    *)
(* (planetLongitudes is a Map<number | string, number>) beside the angle    *)
(* ASC.                                                                      *)

MaxKeyEvals == 2

KeyTriggers ==
    {[type |-> "planetCrossesAngle", planet |-> "mars", angle |-> "ASC"],
     [type |-> "ascLeavesHouse", house |-> 1],
     [type |-> "custom"]}

KeyPrograms ==
    {[baseFrame |-> LegacyFrame, locks |-> Undefined, rules |-> Some(rs)] :
        rs \in UNION {{[i \in 1..n |-> Rule(i, ts[i])] : ts \in [1..n -> KeyTriggers]} :
                        n \in 1..2}}

\* Mars and the angle ASC each in house 1 or in house 2, on each other when in
\* the same house; an object named "ASC" absent, in house 1 or in house 2.
KeyCharts ==
    {Chart(("mars" :> m) @@ object, "ASC" :> a, Some(hc)) :
        m \in {Deg(15), Deg(130)},
        object \in OptionalEntry("ASC", {Deg(15), Deg(130)}),
        a \in {Deg(15), Deg(130)},
        hc \in CuspMaps}

KeyInit ==
    /\ program \in KeyPrograms
    /\ origin = "fresh"
    /\ returned = Constructed(program, NoRef, << >>)
    /\ previousState = NoRef
    /\ prevBefore = Undefined
    /\ chart = Undefined
    /\ repeat = Undefined
    /\ evals = 0
    /\ call = Undefined
    /\ answer = Undefined
    /\ pair = Undefined
    /\ wheel = Undefined

KeyNext == \E snapshot \in KeyCharts : evals < MaxKeyEvals /\ Evaluate(snapshot)

KeySpec == KeyInit /\ [][KeyNext]_vars

---------------------------------------------------------------------------
(* What the claims speak about *)

Called == chart # Undefined

Rules == IF program.rules = Undefined THEN << >> ELSE program.rules[1]

RulesOfType(types) == {i \in 1..Len(Rules) : Rules[i].trigger.type \in types}

\* The previous state of the last call: empty when none was passed.
PrevContents == IF prevBefore = Undefined THEN FreshState ELSE prevBefore[1]

\* The house a longitude of the snapshot falls in; NoHouse when the longitude
\* or the cusps are missing.
HouseIn(snapshot, longitude) ==
    IF longitude = Undefined \/ snapshot.houseCusps = Undefined THEN NoHouse
    ELSE getHouseForLongitude(longitude[1], snapshot.houseCusps[1])

AscHouse(snapshot) == HouseIn(snapshot, MapGet(snapshot.angleLongitudes, "ASC"))

PlanetHouse(snapshot, planet) == HouseIn(snapshot, MapGet(snapshot.planetLongitudes, planet))

Recorded(st, subject, house) == MapGet(st.previousHousePositions, Key(subject, house))

Abs(x) == IF x < 0 THEN -x ELSE x

\* The circular distance of two longitudes: the smaller of d and 360 - d,
\* d being the difference of the normalised longitudes.
AngularDistance(a, b) ==
    LET d == Abs((a % Deg(360)) - (b % Deg(360)))
    IN  IF d <= Deg(360) - d THEN d ELSE Deg(360) - d

---------------------------------------------------------------------------
(* C1 *)

\* C1: a rule ascLeavesHouse{house} whose id is not in the previous state's
\* appliedRuleIds fires if and only if the ASC's house in the snapshot differs
\* from house and the previous state records house under "ASC:<house>".
\* (Stated for the snapshots in which the ASC has a house.)
C1_AscLeavesHouseIff ==
    Called =>
        \A i \in RulesOfType({"ascLeavesHouse"}) :
            LET house == Rules[i].trigger.house
            IN  (/\ Rules[i].id \notin PrevContents.appliedRuleIds
                 /\ AscHouse(chart[1]) # NoHouse)
                => (fired[i] <=>
                        /\ AscHouse(chart[1]) # house
                        /\ Recorded(PrevContents, "ASC", house) = Some(house))

---------------------------------------------------------------------------
(* C2 *)

\* C2: a rule planetCrossesHouse{planet, house} fires if and only if the
\* planet's longitude and the cusps are present, the planet is in house, and
\* the previous state does not record house under "<planet>:<house>".
C2_PlanetCrossesHouseIff ==
    Called =>
        \A i \in RulesOfType({"planetCrossesHouse"}) :
            LET planet == Rules[i].trigger.planet
                house == Rules[i].trigger.house
            IN  fired[i] <=>
                    /\ planet \in DOMAIN chart[1].planetLongitudes
                    /\ chart[1].houseCusps # Undefined
                    /\ PlanetHouse(chart[1], planet) = house
                    /\ Recorded(PrevContents, planet, house) # Some(house)

---------------------------------------------------------------------------
(* C3 *)

PresentBoth(snapshot, trigger) ==
    /\ trigger.planet \in DOMAIN snapshot.planetLongitudes
    /\ trigger.angle \in DOMAIN snapshot.angleLongitudes

OrbDistance(snapshot, trigger) ==
    AngularDistance(snapshot.planetLongitudes[trigger.planet],
                    snapshot.angleLongitudes[trigger.angle])

\* C3: a rule planetCrossesAngle{planet, angle} fires if and only if both
\* longitudes are present and their circular distance is at most 1.0 degree,
\* whatever the previous state holds (its id may already be applied).
C3_PlanetCrossesAngleIff ==
    Called =>
        \A i \in RulesOfType({"planetCrossesAngle"}) :
            fired[i] <=>
                /\ PresentBoth(chart[1], Rules[i].trigger)
                /\ OrbDistance(chart[1], Rules[i].trigger) <= Deg(1)

\* A rule already applied fires again, at a distance of exactly 1.0 degree.
C3_Witness ==
    /\ Called
    /\ \E i \in RulesOfType({"planetCrossesAngle"}) :
            /\ fired[i]
            /\ Rules[i].id \in PrevContents.appliedRuleIds
            /\ OrbDistance(chart[1], Rules[i].trigger) = Deg(1)

---------------------------------------------------------------------------
(* C4 *)

\* C4: the rules that fire in a call are exactly the rules whose trigger holds
\* against the snapshot and the previous state passed to the call.
C4_TriggersSeePreviousState ==
    Called =>
        \A i \in 1..Len(Rules) :
            fired[i] <=> ruleTriggered(Rules[i], chart[1], PrevContents)

---------------------------------------------------------------------------
(* C5 *)

\* The applied rule ids of the state the caller holds and passes next.
Applied == IF state = NoRef THEN {} ELSE heap[state].appliedRuleIds

\* The ASC has left the house of ascLeavesHouse rule i: the previous state of
\* the last call records the house, and the snapshot has the ASC in another.
AscLeft(i) ==
    /\ Recorded(PrevContents, "ASC", Rules[i].trigger.house)
            = Some(Rules[i].trigger.house)
    /\ AscHouse(chart[1]) \notin {Rules[i].trigger.house, NoHouse}

\* The rule fires in the evaluation in which the ASC is found to have left its
\* house, its id not being applied yet.
C5_FiresOnLeaving ==
    Called =>
        \A i \in RulesOfType({"ascLeavesHouse"}) :
            (AscLeft(i) /\ Rules[i].id \notin PrevContents.appliedRuleIds)
                => fired[i]

\* C5: an ascLeavesHouse rule whose id is in appliedRuleIds does not fire in the
\* next evaluation and its id stays applied, so it never fires again; and it
\* does fire in the evaluation that finds the ASC gone from its house: from
\* "ASC:1" = 1 with the ASC in house 2 it fires exactly once.
C5_AscLeavesHouseAtMostOnce ==
    /\ []C5_FiresOnLeaving
    /\ [][\A i \in RulesOfType({"ascLeavesHouse"}) :
            Rules[i].id \in Applied
                => (~fired'[i] /\ Rules[i].id \in Applied')]_vars

\* A later evaluation still finds the ASC gone from the rule's house, and the
\* rule, applied before, stays quiet.
C5_Witness ==
    /\ Called
    /\ \E i \in RulesOfType({"ascLeavesHouse"}) :
            /\ AscLeft(i)
            /\ Rules[i].id \in PrevContents.appliedRuleIds
            /\ ~fired[i]

---------------------------------------------------------------------------
(* C6 *)

EdgeRules == RulesOfType({"ascLeavesHouse", "planetCrossesHouse"})

\* C6: when a call is followed by a call with the identical snapshot and the
\* state the first returned, no edge-triggered rule that fired in the first
\* fires in the second.
C6_NoRefireOnSameSnapshot ==
    [][(Called /\ chart' = chart)
            => \A i \in EdgeRules : fired[i] => ~fired'[i]]_vars

\* The second of two calls with the same snapshot, a planetCrossesHouse rule
\* and an ascLeavesHouse rule having fired in the first.
C6_Witness ==
    /\ repeat # Undefined
    /\ \E i \in RulesOfType({"planetCrossesHouse"}) : repeat[1][i] /\ ~fired[i]
    /\ \E i \in RulesOfType({"ascLeavesHouse"}) : repeat[1][i] /\ ~fired[i]

---------------------------------------------------------------------------
(* C7 *)

\* C7: if some rule fired at an evaluation where planet p was in a house other
\* than h, and p is in h at the next evaluation, then planetCrossesHouse{p,h}
\* fires at that next evaluation.  (Stated for the sessions that started with
\* no state, and for a rule before which no rule fires in that next evaluation.)
C7_EntryDetectedAfterTracking ==
    [][\A i \in RulesOfType({"planetCrossesHouse"}) :
            (/\ Called /\ origin = "fresh"
             /\ \E j \in 1..Len(Rules) : fired[j]
             /\ PlanetHouse(chart[1], Rules[i].trigger.planet)
                    \notin {Rules[i].trigger.house, NoHouse}
             /\ PlanetHouse(chart'[1], Rules[i].trigger.planet) = Rules[i].trigger.house
             /\ \A j \in 1..(i - 1) : ~fired'[j])
            => fired'[i]]_vars

---------------------------------------------------------------------------
(* C8 *)

\* C8: the state a call returns is never the object passed as previousState.
C8_ReturnsNewState ==
    (Called /\ previousState # NoRef) => state # previousState

---------------------------------------------------------------------------
(* C9 *)

\* C9: after a call, the object passed as previousState has the contents it
\* had before the call.
C9_PreviousStateUntouched ==
    (Called /\ previousState # NoRef) => heap[previousState] = prevBefore[1]

\* Two rules fired, and the returned state differs from the previous one in
\* both of its fields.
C9_Witness ==
    /\ Called /\ previousState # NoRef
    /\ Len(fired) = 2 /\ fired[1] /\ fired[2]
    /\ heap[state].appliedRuleIds # prevBefore[1].appliedRuleIds
    /\ heap[state].previousHousePositions # prevBefore[1].previousHousePositions

---------------------------------------------------------------------------
(* C10 *)

FiredIds == {Rules[i].id : i \in {j \in 1..Len(Rules) : fired[j]}}

\* The program of the example: a legacy base frame at 180 degrees and the one
\* rule rotate{30} on planetCrossesAngle{mars, ASC}; mars is exactly on the ASC.
C10_Example ==
    /\ Called
    /\ program.baseFrame.screenAngleDeg = Deg(180)
    /\ program.baseFrame.worldZero = Undefined
    /\ Len(Rules) = 1
    /\ Rules[1].trigger = [type |-> "planetCrossesAngle", planet |-> "mars", angle |-> "ASC"]
    /\ Rules[1].effect = [type |-> "rotate", delta |-> Deg(30)]
    /\ PresentBoth(chart[1], Rules[1].trigger)
    /\ chart[1].planetLongitudes["mars"] = chart[1].angleLongitudes["ASC"]

\* C10: the returned state's appliedRuleIds are the previous state's, united
\* with the ids of exactly the rules that fired; in the example the returned
\* frame's screen angle is 210 and the rule's id is applied.
C10_AppliedIsPreviousPlusFired ==
    Called =>
        /\ heap[state].appliedRuleIds = PrevContents.appliedRuleIds \cup FiredIds
        /\ C10_Example =>
                /\ frame.screenAngleDeg = Deg(210)
                /\ Rules[1].id \in heap[state].appliedRuleIds

\* The example, from a previous state that holds no rule id.
C10_Witness ==
    /\ C10_Example
    /\ PrevContents.appliedRuleIds = {}
    /\ heap[state].appliedRuleIds = {Rules[1].id}

---------------------------------------------------------------------------
(* C16 *)

NoCusps(snapshot) == snapshot.houseCusps \in {Undefined, Some(<< >>)}

\* The snapshot lacks an element the trigger needs.
DataMissing(trigger, snapshot) ==
    CASE trigger.type = "ascLeavesHouse" ->
            "ASC" \notin DOMAIN snapshot.angleLongitudes \/ NoCusps(snapshot)
      [] trigger.type = "planetCrossesHouse" ->
            trigger.planet \notin DOMAIN snapshot.planetLongitudes \/ NoCusps(snapshot)
      [] trigger.type = "planetCrossesAngle" -> ~PresentBoth(snapshot, trigger)
      [] OTHER -> FALSE

\* C16: a rule whose trigger needs an element the snapshot lacks (the ASC, the
\* planet, the named angle, or the cusps: absent, or present but empty) does
\* not fire, whatever the previous state holds.
C16_MissingDataNeverFires ==
    Called =>
        \A i \in 1..Len(Rules) :
            DataMissing(Rules[i].trigger, chart[1]) => ~fired[i]

---------------------------------------------------------------------------
(* C11 *)

StaticLocksOf(prog) == IF prog.locks = Undefined THEN << >> ELSE prog.locks[1]

\* The locks of the rules i, i+1, ... that fired in the last call, in list order.
RECURSIVE Contributed(_)
Contributed(i) ==
    IF i > Len(Rules) THEN << >>
    ELSE (IF fired[i] /\ Rules[i].locks # Undefined THEN Rules[i].locks[1] ELSE << >>)
         \o Contributed(i + 1)

\* C11: the returned locks are the program's static locks (none when the list
\* is absent) followed by the locks of the rules that fired, in list order; a
\* rule that did not fire contributes nothing.
C11_LocksAreStaticThenContributed ==
    Called => locks = StaticLocksOf(program) \o Contributed(1)

\* Both rules of the program carry locks and fired, and the program has
\* static locks.
C11_Witness ==
    /\ Called /\ program.locks # Undefined
    /\ Len(Rules) = 2 /\ fired[1] /\ fired[2]
    /\ Rules[1].locks # Undefined /\ Rules[2].locks # Undefined
    /\ locks = StaticLocks \o RuleLocks(1) \o RuleLocks(2)

---------------------------------------------------------------------------
(* C12 *)

\* The frame value an effect makes of a frame value.
Effected(effect, viewFrame) ==
    IF effect.type = "setViewFrame" THEN effect.viewFrame
    ELSE LET made == applyEffect(effect, 1, <<viewFrame>>)
         IN  made.frames[made.frame]

\* The effects of the rules i, i+1, ... that fired, applied in list order.
RECURSIVE Folded(_, _)
Folded(i, viewFrame) ==
    IF i > Len(Rules) THEN viewFrame
    ELSE Folded(i + 1, IF fired[i] THEN Effected(Rules[i].effect, viewFrame)
                       ELSE viewFrame)

LastFired(i) == fired[i] /\ \A j \in (i + 1)..Len(Rules) : ~fired[j]

\* C12: the returned frame is the left fold of the effects of the rules that
\* fired, in list order, over program.baseFrame; when the last rule that fired
\* is a setViewFrame, the returned frame is the frame it carries, whatever
\* fired before it.
C12_FrameIsLeftFold ==
    Called =>
        /\ frame = Folded(1, program.baseFrame)
        /\ \A i \in 1..Len(Rules) :
                (LastFired(i) /\ Rules[i].effect.type = "setViewFrame")
                    => frame = Rules[i].effect.viewFrame

\* A rotate or mirror fired and a setViewFrame fired after it: the returned
\* frame is the carried frame, and not the base frame.
C12_Witness ==
    /\ Called /\ Len(Rules) = 2 /\ fired[1] /\ fired[2]
    /\ Rules[1].effect.type \in {"rotate", "mirror"}
    /\ Rules[2].effect.type = "setViewFrame"
    /\ frame = CarriedFrame /\ frame # program.baseFrame

---------------------------------------------------------------------------
(* C13 *)

FiredEffects == {Rules[i].effect.type : i \in {j \in 1..Len(Rules) : fired[j]}}

\* The sum of the deltas of the rotate rules i, i+1, ... that fired.
RECURSIVE TotalDelta(_)
TotalDelta(i) ==
    IF i > Len(Rules) THEN 0
    ELSE (IF fired[i] /\ Rules[i].effect.type = "rotate" THEN Rules[i].effect.delta ELSE 0)
         + TotalDelta(i + 1)

\* The frame with delta added to its screenZero (onZero) or to its
\* screenAngleDeg, the sum brought into [0, 360); nothing else changed.
Rotated(viewFrame, delta, onZero) ==
    IF onZero
    THEN [viewFrame EXCEPT !.screenZero = Some((@[1] + delta) % Deg(360))]
    ELSE [viewFrame EXCEPT !.screenAngleDeg = (@ + delta) % Deg(360)]

\* C13, as stated: when only rotate rules fired, the deltas went to the base
\* frame's screenZero when it has a screenZero, otherwise to its
\* screenAngleDeg, normalised into [0, 360), every other field unchanged.
C13_RotateOnScreenZeroIfPresent ==
    (Called /\ FiredEffects = {"rotate"}) =>
        frame = Rotated(program.baseFrame, TotalDelta(1),
                        program.baseFrame.screenZero # Undefined)

\* C13, amended: when only rotate rules fired, the deltas went to the base
\* frame's screenZero when it has both a worldZero and a screenZero, otherwise
\* to its screenAngleDeg, normalised into [0, 360), every other field unchanged.
C13_RotateOnScreenZeroIfBoth ==
    (Called /\ FiredEffects = {"rotate"}) =>
        frame = Rotated(program.baseFrame, TotalDelta(1),
                        /\ program.baseFrame.worldZero # Undefined
                        /\ program.baseFrame.screenZero # Undefined)

\* rotate{200} and rotate{-200} fired on frames of both kinds, the sum leaving
\* [0, 360) on the way: 270 + 200 on a screenZero, 180 - 200 on a legacy angle.
C13_Witness ==
    /\ Called /\ FiredEffects = {"rotate"}
    /\ \/ /\ program.baseFrame = NewModelFrame /\ TotalDelta(1) = Deg(200)
          /\ frame.screenZero = Some(Deg(110)) /\ frame.screenAngleDeg = Deg(180)
       \/ /\ program.baseFrame = LegacyFrame /\ TotalDelta(1) = Deg(-200)
          /\ frame.screenAngleDeg = Deg(340)

---------------------------------------------------------------------------
(* C14 *)

FlipOf(direction) ==
    CASE direction = "1" -> "-1"
      [] direction = "-1" -> "1"
      [] direction = "cw" -> "ccw"
      [] direction = "ccw" -> "cw"

MirrorsFired == Cardinality({i \in 1..Len(Rules) : fired[i] /\ Rules[i].effect.type = "mirror"})

\* C14: when mirror rules fired (and no setViewFrame), one mirror leaves the
\* base frame's direction flipped within its encoding (1 and -1, cw and ccw),
\* two mirrors leave the base frame's direction.
C14_MirrorFlipsWithinEncoding ==
    (Called /\ "setViewFrame" \notin FiredEffects) =>
        frame.direction = IF MirrorsFired % 2 = 1 THEN FlipOf(program.baseFrame.direction)
                          ELSE program.baseFrame.direction

---------------------------------------------------------------------------
(* C15 *)

\* C15: after a call, the program's base frame, the frames its setViewFrame
\* rules carry and its static lock list hold what they held when the program
\* was built.
C15_ProgramObjectsUntouched ==
    Called => owned = [frames |-> ProgramFrames(program), locks |-> program.locks]

\* A setViewFrame fired and a rotate or mirror after it, a rule contributing
\* locks next to the static ones: the returned frame is neither the base
\* frame's value nor the carried frame's.
C15_Witness ==
    /\ Called /\ program.locks # Undefined
    /\ Len(Rules) = 2 /\ fired[1] /\ fired[2]
    /\ Rules[1].effect.type = "setViewFrame"
    /\ Rules[2].effect.type \in {"rotate", "mirror"}
    /\ frame \notin {CarriedFrame, program.baseFrame}
    /\ Len(locks) > Len(StaticLocks)

---------------------------------------------------------------------------
(* C17 *)

\* A call of the house locator has returned.
Located == call.fn = "getHouseForLongitude" /\ answer # Undefined

InCircle(angle) == angle % Deg(360)

Keys(houseCusps) == {houseCusps[i].houseNum : i \in 1..Len(houseCusps)}

\* Two or more cusps, no two of them equal once normalised.
DistinctCusps(houseCusps) ==
    /\ Len(houseCusps) >= 2
    /\ \A i, j \in 1..Len(houseCusps) :
            InCircle(houseCusps[i].cusp) = InCircle(houseCusps[j].cusp) => i = j

BelowEveryCusp(longitude, houseCusps) ==
    \A i \in 1..Len(houseCusps) : InCircle(longitude) < InCircle(houseCusps[i].cusp)

\* The house with the greatest cusp at or below the longitude; the house with
\* the greatest cusp of all when the longitude is below every cusp.
HouseByGreatestCusp(longitude, houseCusps) ==
    LET atOrBelow == {i \in 1..Len(houseCusps) :
                        InCircle(houseCusps[i].cusp) <= InCircle(longitude)}
        among == IF atOrBelow # {} THEN atOrBelow ELSE 1..Len(houseCusps)
        best == CHOOSE i \in among :
                    \A j \in among : InCircle(houseCusps[j].cusp) <= InCircle(houseCusps[i].cusp)
    IN  houseCusps[best].houseNum

\* C17: for two or more cusps, pairwise distinct once normalised, the locator
\* returns the house whose cusp is the greatest at or below the normalised
\* longitude, and the house with the greatest cusp when the longitude is below
\* every cusp; over the cusps 0, 30, ..., 330 it returns 1 for 15, 12 for 359
\* and 1 for 0.
C17_HouseOfGreatestCuspBelow ==
    Located =>
        /\ DistinctCusps(call.houseCusps)
                => answer[1] = HouseByGreatestCusp(call.longitude, call.houseCusps)
        /\ call.houseCusps = TwelveCusps =>
                /\ call.longitude = Deg(15) => answer[1] = 1
                /\ call.longitude = Deg(359) => answer[1] = 12
                /\ call.longitude = Deg(0) => answer[1] = 1

\* Three distinct cusps inserted out of order, a longitude outside [0, 360)
\* that is below every cusp once normalised: the house of the greatest cusp.
C17_Witness ==
    /\ Located /\ DistinctCusps(call.houseCusps)
    /\ Len(call.houseCusps) = 3
    /\ InCircle(call.houseCusps[1].cusp) > InCircle(call.houseCusps[2].cusp)
    /\ call.longitude # InCircle(call.longitude)
    /\ BelowEveryCusp(call.longitude, call.houseCusps)
    /\ \E i \in 1..3 :
            /\ answer[1] = call.houseCusps[i].houseNum
            /\ \A j \in 1..3 : InCircle(call.houseCusps[j].cusp) <= InCircle(call.houseCusps[i].cusp)

---------------------------------------------------------------------------
(* C18 *)

\* C18: the locator returns no house exactly when the cusp map is empty; for
\* a map that is not empty (a single cusp, equal cusps, cusps out of house
\* order) it returns a house number that is a key of the map.
C18_NotFoundOnlyWhenEmpty ==
    Located =>
        /\ answer[1] = NoHouse <=> Len(call.houseCusps) = 0
        /\ Len(call.houseCusps) > 0 => answer[1] \in Keys(call.houseCusps)

\* Several houses on one and the same cusp: a house of the map is returned.
C18_Witness ==
    /\ Located /\ Len(call.houseCusps) >= 2
    /\ \A i \in 1..Len(call.houseCusps) :
            InCircle(call.houseCusps[i].cusp) = InCircle(call.houseCusps[1].cusp)
    /\ answer[1] \in Keys(call.houseCusps)

---------------------------------------------------------------------------
(* C19 *)

LockLooked == call.fn = "getLockFrameForElement" /\ answer # Undefined

\* Lock i of the call names the element of the call: its type and its id.
Names(i) ==
    /\ call.locks[i].elementType = call.elementType
    /\ call.locks[i].elementId = call.elementId

\* C19: getLockFrameForElement returns the frame of the first lock in list
\* order that applies to the element, and null when none applies.
C19_FirstMatchingLock ==
    LockLooked =>
        IF \E i \in 1..Len(call.locks) : Names(i)
        THEN \E i \in 1..Len(call.locks) :
                /\ Names(i) /\ \A j \in 1..(i - 1) : ~Names(j)
                /\ answer[1] = Some(call.locks[i].frame)
        ELSE answer[1] = Undefined

\* Two locks apply to the element, with different frames: the first one's
\* frame is returned.
C19_Witness ==
    /\ LockLooked /\ Len(call.locks) = 2
    /\ Names(1) /\ Names(2)
    /\ call.locks[1].frame # call.locks[2].frame
    /\ answer[1] = Some(call.locks[1].frame)

---------------------------------------------------------------------------
(* C20 *)

Converted == call.fn = "convertToScreenAngle" /\ answer # Undefined

\* The chart data lack the element the anchor refers to.
Unresolvable(anchor, data) ==
    CASE anchor.kind = "object" -> anchor.id \notin DOMAIN data.planetLongitudes
      [] anchor.kind = "angle" -> anchor.id \notin DOMAIN data.angleLongitudes
      [] anchor.kind = "house" ->
            \/ data.houseCusps = Undefined
            \/ anchor.house \notin Keys(data.houseCusps[1])
      [] OTHER -> FALSE

\* C20: when the anchor cannot be resolved, convertToScreenAngle returns
\* 180 - worldLongitude + (screenAngleDeg - 180) normalised, a value in
\* [0, 360), for every world longitude and screen angle.
C20_FallbackRotation ==
    (Converted /\ Unresolvable(call.viewFrame.anchor, call.chartData)) =>
        /\ answer[1] = (Deg(180) - call.worldLongitude
                            + (call.viewFrame.screenAngleDeg - Deg(180))) % Deg(360)
        /\ answer[1] >= 0 /\ answer[1] < Deg(360)

\* A world longitude below 0 and a screen angle above 360, the anchor's
\* element missing: 180 + 20 + 270 is 110 once normalised.
C20_Witness ==
    /\ Converted /\ Unresolvable(call.viewFrame.anchor, call.chartData)
    /\ call.worldLongitude = Deg(-20) /\ call.viewFrame.screenAngleDeg = Deg(450)
    /\ answer[1] = Deg(110)

---------------------------------------------------------------------------
(* C21 *)

\* The runtime state session s holds after its last call, and the one its copy
\* holds.
HeldState(s) == pair.heap[pair.held[s]]

AloneState(s) == pair.alone[s].heap[pair.alone[s].state]

Evaluated(s) == \E k \in 1..Len(pair.order) : pair.order[k] = s

\* C21: session isolation.  Whatever the other session has done in between,
\* the last call of a session returned the frame, the locks and the state that
\* the same call returns to the session running alone, and fired the same
\* rules; this also when both sessions run one program object.
C21_SessionIsolation ==
    \A s \in Sessions :
        Evaluated(s) =>
            /\ pair.result[s].frame = pair.alone[s].frame
            /\ pair.result[s].locks = pair.alone[s].locks
            /\ pair.result[s].fired = pair.alone[s].fired
            /\ HeldState(s) = AloneState(s)

\* The sessions share the program object and have taken turns, each holding a
\* state object of its own; the first call of session 1 fired a rule and its
\* second call fired none, the second call of session 2 fired one.
C21_Witness ==
    /\ pair # Undefined
    /\ pair.shared
    /\ pair.order = <<1, 2, 1, 2>>
    /\ pair.held[1] # pair.held[2]
    /\ "r1" \in HeldState(1).appliedRuleIds
    /\ \A i \in 1..Len(pair.result[1].fired) : ~pair.result[1].fired[i]
    /\ \E i \in 1..Len(pair.result[2].fired) : pair.result[2].fired[i]

---------------------------------------------------------------------------
(* C22 *)

\* The program has nothing that can fire: no rule list, an empty one, or custom
\* rules only.
Quiet == RulesOfType({"ascLeavesHouse", "planetCrossesHouse", "planetCrossesAngle"}) = {}

\* C22: a custom rule never fires, whatever the snapshot and the state; and a
\* program without a rule list, with an empty one or with custom rules only
\* returns its baseFrame, its static locks, and a state with the contents of
\* the previous state (empty when none was passed).
C22_CustomNeverFiresAndQuietProgramsReturnDefaults ==
    Called =>
        /\ \A i \in RulesOfType({"custom"}) : ~fired[i]
        /\ Quiet =>
            /\ frame = program.baseFrame
            /\ locks = StaticLocksOf(program)
            /\ heap[state].appliedRuleIds = PrevContents.appliedRuleIds
            /\ heap[state].previousHousePositions = PrevContents.previousHousePositions

\* A program with static locks whose only rule is a custom one was evaluated
\* on a snapshot with all its data and a previous state that records a position.
C22_Witness ==
    /\ Called
    /\ Len(Rules) = 1
    /\ Rules[1].trigger.type = "custom"
    /\ program.locks # Undefined
    /\ PrevContents.previousHousePositions # EmptyMap
    /\ chart[1].houseCusps \notin {Undefined, Some(<< >>)}
    /\ DOMAIN chart[1].planetLongitudes # {}
    /\ DOMAIN chart[1].angleLongitudes # {}

---------------------------------------------------------------------------
(* C23 *)

\* The last call rendered the chart, with a visualConfig and a theme in the
\* options.
RenderedWithConfigAndTheme ==
    /\ wheel.container = "svg"
    /\ "visualConfig" \in DOMAIN wheel.options
    /\ "theme" \in DOMAIN wheel.options

PlainFields ==
    {"ringWidth", "ringSpacing", "signColors", "houseColors", "planetColors",
     "backgroundColor", "strokeColor", "strokeWidth", "aspectStrokeWidth"}

AspectNames == {"conjunction", "opposition"}

\* C23: the configuration a ChartWheel renders with, also after update(), has
\* the caller's value in every field that the visualConfig sets and the value
\* of the selected theme in every field that the visualConfig leaves unset
\* (the aspect colours taken one by one).
C23_VisualConfigMergedWithSelectedTheme ==
    RenderedWithConfigAndTheme =>
        LET config == wheel.options.visualConfig
            themeConfig == getThemeColors(wheel.options.theme)
            merged == wheel.merged[1]
        IN  /\ \A f \in PlainFields :
                IF f \in DOMAIN config THEN merged[f] = config[f]
                ELSE f \in DOMAIN themeConfig => merged[f] = themeConfig[f]
            /\ \A a \in AspectNames :
                IF a \in DOMAIN AspectColorsOf(config)
                THEN merged.aspectColors[a] = config.aspectColors[a]
                ELSE merged.aspectColors[a] = themeConfig.aspectColors[a]

---------------------------------------------------------------------------
(* C30 *)

\* C30: between the calls of a ChartWheel's methods no update() is executing,
\* and isUpdating is false: after the constructor and after every update(),
\* render() and destroy(), the update() calls whose render throws included.
C30_IsUpdatingOnlyDuringUpdate == ~wheel.isUpdating

---------------------------------------------------------------------------
(* C24 *)

EffectiveAsked == call.fn = "getEffectiveLongitude" /\ answer # Undefined

\* C24: getEffectiveLongitude returns, for an element whose first applicable
\* lock has the frame 'screen', the screen angle that convertToScreenAngle
\* gives for its world longitude under the view frame, and for an element
\* without an applicable lock the world longitude as it is.
C24_EffectiveLongitudeOfScreenLock ==
    EffectiveAsked =>
        LET lockFrame == getLockFrameForElement(call.elementType, call.elementId, call.locks)
        IN  /\ lockFrame = Some("screen") =>
                answer[1] = convertToScreenAngle(call.worldLongitude, call.viewFrame,
                                                 call.chartData)
            /\ lockFrame = Undefined => answer[1] = call.worldLongitude

---------------------------------------------------------------------------
(* C25 *)

CrossingRules == RulesOfType({"planetCrossesHouse"})

\* In a run from no state the applied ids are those of the rules that have
\* fired: a rule that fires is applied in the returned state.
C25_FiredIsApplied ==
    (origin = "fresh" /\ Called) =>
        \A i \in CrossingRules : fired[i] => Rules[i].id \in Applied

---------------------------------------------------------------------------
(* C26 *)

LeavingRules == RulesOfType({"ascLeavesHouse"})

SomeFired == \E i \in 1..Len(Rules) : fired[i]

\* C26, for the first two evaluations of a run from no state: an
\* ascLeavesHouse{h} rule does not fire in the first evaluation, which has no
\* earlier one; it fires in the second only if a rule fired in the first and
\* the snapshot of the first had the ASC in house h; and in a program of
\* ascLeavesHouse and custom rules only, no rule fires and the state stays
\* empty.
C26_AscLeavesHouseNeedsEarlierFiring ==
    /\ [](evals = 1 => \A i \in LeavingRules : ~fired[i])
    /\ [][evals = 1 =>
            \A i \in LeavingRules :
                fired'[i] => (SomeFired /\ AscHouse(chart[1]) = Rules[i].trigger.house)]_vars
    /\ []((Called /\ RulesOfType({"planetCrossesHouse", "planetCrossesAngle"}) = {}) =>
            /\ ~SomeFired
            /\ heap[state] = FreshState)

---------------------------------------------------------------------------
(* C27 *)

\* The positions in the state the caller holds; none before the first call.
Positions == IF state = NoRef THEN EmptyMap ELSE heap[state].previousHousePositions

Subjects == {"ASC", "mars"}

Houses == 1..3

\* Every entry is some "<subject>:<n>" with the value n.
C27_EntriesNameTheirHouse ==
    \A k \in DOMAIN Positions :
        \E subject \in Subjects, n \in Houses : k = Key(subject, n) /\ Positions[k] = n

\* C27: in every state reached from the empty state, each entry of
\* previousHousePositions has a key "<subject>:<n>" and the value n, so that
\* "ASC:<h>" never records a house other than h; and an evaluation neither
\* removes nor changes an entry.
C27_PositionsNameTheirHouseAndStay ==
    /\ []C27_EntriesNameTheirHouse
    /\ [][\A k \in DOMAIN Positions :
            k \in DOMAIN Positions' /\ Positions'[k] = Positions[k]]_vars

\* The second evaluation added entries to those of the first, the angle ASC
\* and an object named "ASC" being in different houses.
C27_Witness ==
    /\ evals = 2
    /\ PrevContents.previousHousePositions # EmptyMap
    /\ DOMAIN PrevContents.previousHousePositions # DOMAIN Positions
    /\ {Key("ASC", 1), Key("ASC", 2), Key("mars", 1), Key("mars", 2)} \subseteq DOMAIN Positions
    /\ "ASC" \in DOMAIN chart[1].planetLongitudes
    /\ PlanetHouse(chart[1], "ASC") # AscHouse(chart[1])

---------------------------------------------------------------------------
(* C28 *)

\* The effects of those of the rules i, i+1, ... that are flagged, applied in
\* list order.
RECURSIVE FoldedOver(_, _, _, _)
FoldedOver(rules, flags, i, viewFrame) ==
    IF i > Len(rules) THEN viewFrame
    ELSE FoldedOver(rules, flags, i + 1,
                    IF flags[i] THEN Effected(rules[i].effect, viewFrame) ELSE viewFrame)

Calls(s) == Cardinality({k \in 1..Len(pair.order) : pair.order[k] = s})

\* C28: effects do not persist.  The frame a call returns is made of
\* program.baseFrame and the effects of the rules that fired in that call;
\* where none fired it is program.baseFrame, whatever fired in the earlier
\* calls of the session.
C28_EffectsDoNotPersist ==
    \A s \in Sessions :
        Evaluated(s) =>
            LET prog == pair.programs[s]
                last == pair.result[s]
            IN  /\ last.frame = FoldedOver(prog.rules[1], last.fired, 1, prog.baseFrame)
                /\ (\A i \in 1..Len(last.fired) : ~last.fired[i])
                        => last.frame = prog.baseFrame

\* A session whose first call fired a setViewFrame rule and whose second call
\* fired no rule: the second call returned the base frame and not the frame
\* the rule carries.
C28_Witness ==
    /\ pair # Undefined
    /\ \E s \in Sessions :
        /\ Calls(s) = 2
        /\ "r1" \in HeldState(s).appliedRuleIds
        /\ pair.programs[s].rules[1][1].effect.type = "setViewFrame"
        /\ \A i \in 1..Len(pair.result[s].fired) : ~pair.result[s].fired[i]
        /\ pair.result[s].frame = pair.programs[s].baseFrame
        /\ pair.result[s].frame # CarriedFrame

---------------------------------------------------------------------------
(* C29 *)

\* The elements that the locks of the programs name.
LockedElements ==
    {<<"angle", "ASC">>} \cup {<<"object", RuleId(i)>> : i \in 1..MaxRules}

\* The static locks of the program that apply to element e, by position.
StaticFor(e) ==
    {i \in 1..Len(StaticLocksOf(program)) :
        lockRuleApplies(StaticLocksOf(program)[i], e[1], e[2])}

\* C29: static locks shadow the locks of the rules.  For an element to which
\* a static lock of the program applies, getLockFrameForElement over the
\* returned locks gives the frame of the first static lock that applies,
\* whichever rules fired and whatever locks they brought for the element.
C29_StaticLocksShadowRuleLocks ==
    Called =>
        \A e \in LockedElements :
            StaticFor(e) # {} =>
                getLockFrameForElement(e[1], e[2], locks)
                    = Some(StaticLocksOf(program)[Min(StaticFor(e))].frame)

\* A rule fired and brought a lock of the ASC to the houses; the static lock
\* holds the ASC to the screen, and that is the frame found.
C29_Witness ==
    /\ Called
    /\ StaticFor(<<"angle", "ASC">>) # {}
    /\ \E i \in 1..Len(Rules) : fired[i] /\ Rules[i].locks # Undefined
    /\ \E k \in 1..Len(locks) : locks[k] = LockRule("angle", "ASC", "houses")
    /\ getLockFrameForElement("angle", "ASC", locks) = Some("screen")

====
